---- MODULE Spec2Model ----
(***************************************************************************)
(* Stack resolution and local-source resolution of                         *)
(* terragrunt-atlantis-config: glob matching, module-to-stack matching,    *)
(* stack definition validation and the recursive local module source       *)
(* resolver.  Strings that the code inspects character by character        *)
(* (paths, glob patterns) are sequences of one-character strings.          *)
(***************************************************************************)
EXTENDS Integers, Sequences, FiniteSets, TLC

VARIABLES
    op,             \* which entry point this behaviour exercises
    phase,          \* "input" before the call, "done" after it returned
    path,           \* matchGlobPattern: path argument
    pattern,        \* matchGlobPattern: pattern argument
    matched,        \* matchGlobPattern: returned bool
    modulePath,     \* MatchModuleToStacks: modulePath argument
    gitRoot,        \* MatchModuleToStacks: gitRoot argument
    stacks,         \* MatchModuleToStacks: []ExternalStackConfig argument
    matchedStacks,  \* MatchModuleToStacks: returned []string
    globCalls,      \* per stack index, number of matchGlobPattern calls made
    def,            \* ValidateStackDefinition: *StackDefinitionFile argument
    verr,           \* ValidateStackDefinition: returned error
    moduleDiags,    \* file system: directory -> diagnostics of tfconfig.LoadModule
    moduleCalls,    \* file system: directory -> sources of its module calls
    callStack,      \* resolver: activation records, innermost last
    ret,            \* resolver: <<value>> handed from a returning call to its caller
    sources,        \* resolver: []string returned to the outermost caller
    rerr,           \* resolver: error returned to the outermost caller
    cache,          \* resolution cache: key -> stored result
    inflight,       \* resolution cache: keys with a computation in flight
    callers,        \* resolution cache: caller -> [key, pc, result]
    computeCount,   \* resolution cache: key -> executions of the compute function
    graphDeps,      \* dependency graph: module -> its direct dependencies
    color,          \* dependency graph: module -> "white", "gray" or "black"
    dfsStack,       \* dependency graph: modules being visited, innermost last
    order,          \* dependency graph: modules in the order they were finished
    level,          \* dependency graph: module -> execution level, Unset before
    graphErr,       \* dependency graph: a cycle was reported
    smConfig,       \* StackManager.config
    defFile,        \* the stack records of the file config.DefinitionFile names
    smStacks,       \* StackManager.stacks
    moduleToStacks, \* StackManager.moduleToStacks
    stackToModules, \* StackManager.stackToModules
    discovered,     \* DiscoverStacks has returned without error
    mgrCall,        \* StackManager: the last method called, with its arguments
    mgrRet,         \* StackManager: what that call returned
    assignCalls,    \* StackManager: AssignModulesToStacks calls so far: 0, 1, 2 for more
    converted,      \* ConvertExternalStacksToStacks: returned []Stack
    hclFiles,       \* file system: the terragrunt.stack.hcl files, in walk order
    hclDefs,        \* the definitions ParseStackHclFile returned so far
    hclRet,         \* ParseStackHclFile: what the last call returned
    hclStacks       \* ConvertStackHclToStacks: returned []Stack

vars == <<op, phase, path, pattern, matched, modulePath, gitRoot, stacks,
          matchedStacks, globCalls, def, verr, moduleDiags, moduleCalls,
          callStack, ret, sources, rerr, cache, inflight, callers,
          computeCount, graphDeps, color, dfsStack, order, level, graphErr,
          smConfig, defFile, smStacks, moduleToStacks, stackToModules,
          discovered, mgrCall, mgrRet, assignCalls, converted, hclFiles,
          hclDefs, hclRet, hclStacks>>

globVars == <<path, pattern, matched>>
matchVars == <<modulePath, gitRoot, stacks, matchedStacks, globCalls>>
validateVars == <<def, verr, converted>>
resolveVars == <<moduleDiags, moduleCalls, callStack, ret, sources, rerr>>
cacheVars == <<cache, inflight, callers, computeCount>>
graphVars == <<graphDeps, color, dfsStack, order, level, graphErr>>
managerVars == <<smConfig, defFile, smStacks, moduleToStacks, stackToModules,
                 discovered, mgrCall, mgrRet, assignCalls>>
hclVars == <<hclFiles, hclDefs, hclRet, hclStacks>>

None == "none"

(***************************************************************************)
(* Bounds of the explored inputs.                                          *)
(***************************************************************************)
MaxPathLen == 3
MaxPatternLen == 4

(***************************************************************************)
(* Strings.                                                                *)
(***************************************************************************)
Range(s) == {s[i] : i \in 1..Len(s)}

SeqsUpTo(S, n) == UNION {[1..k -> S] : k \in 0..n}

\* os.PathSeparator of the build (unix).
Separator == "/"

\* strings.HasPrefix
HasPrefix(s, prefix) ==
    /\ Len(prefix) <= Len(s)
    /\ SubSeq(s, 1, Len(prefix)) = prefix

\* strings.HasSuffix
HasSuffix(s, suffix) ==
    /\ Len(suffix) <= Len(s)
    /\ SubSeq(s, Len(s) - Len(suffix) + 1, Len(s)) = suffix

\* strings.TrimSuffix
TrimSuffix(s, suffix) ==
    IF HasSuffix(s, suffix) THEN SubSeq(s, 1, Len(s) - Len(suffix)) ELSE s

\* strings.TrimPrefix
TrimPrefix(s, prefix) ==
    IF HasPrefix(s, prefix) THEN SubSeq(s, Len(prefix) + 1, Len(s)) ELSE s

\* strings.Index: first position (1-based) of sep in s, 0 when absent.
Index(s, sep) ==
    LET hits == {i \in 1..(Len(s) - Len(sep) + 1) : SubSeq(s, i, i + Len(sep) - 1) = sep}
    IN IF hits = {} THEN 0 ELSE CHOOSE i \in hits : \A j \in hits : i <= j

\* strings.Contains
Contains(s, sep) == Index(s, sep) # 0

\* strings.Split for a non-empty separator: the pieces between the
\* non-overlapping occurrences of sep, found left to right.
RECURSIVE Split(_, _)
Split(s, sep) ==
    LET i == Index(s, sep)
    IN IF i = 0
       THEN <<s>>
       ELSE <<SubSeq(s, 1, i - 1)>> \o Split(SubSeq(s, i + Len(sep), Len(s)), sep)

\* filepath.ToSlash: every Separator becomes a slash.
ToSlash(s) == [i \in 1..Len(s) |-> IF s[i] = Separator THEN "/" ELSE s[i]]

\* filepath.Match for patterns made of literal characters and '*':
\* '*' matches any sequence of non-Separator characters.
RECURSIVE Match(_, _)
Match(pat, name) ==
    IF pat = <<>>
    THEN name = <<>>
    ELSE IF Head(pat) = "*"
         THEN \/ Match(Tail(pat), name)
              \/ /\ name # <<>>
                 /\ Head(name) # Separator
                 /\ Match(pat, Tail(name))
         ELSE /\ name # <<>>
              /\ Head(name) = Head(pat)
              /\ Match(Tail(pat), Tail(name))

StarStar == <<"*", "*">>
Slash == <<"/">>

\* matchGlobPattern(path, pattern)
matchGlobPattern(p, pat) ==
    LET parts == Split(pat, StarStar)
        prefix == TrimSuffix(parts[1], Slash)
        suffix == TrimPrefix(parts[2], Slash)
    IN IF Contains(pat, StarStar) /\ Len(parts) = 2
       THEN IF prefix # <<>> /\ ~HasPrefix(p, prefix)
            THEN FALSE
            ELSE IF suffix # <<>> /\ ~HasSuffix(p, suffix)
                 THEN FALSE
                 ELSE TRUE
       ELSE Match(pat, p)

(***************************************************************************)
(* Specification of matchGlobPattern over every path and pattern of the    *)
(* alphabet up to the length bounds.                                       *)
(***************************************************************************)
GlobAlphabet == {"a", "b", "/", "*"}

IdleGlob == path = <<>> /\ pattern = <<>> /\ matched = None
IdleMatch ==
    /\ modulePath = <<>> /\ gitRoot = <<>> /\ stacks = <<>>
    /\ matchedStacks = <<>> /\ globCalls = <<>>
IdleValidate == def = None /\ verr = None /\ converted = <<>>
IdleResolve ==
    /\ moduleDiags = <<>> /\ moduleCalls = <<>> /\ callStack = <<>>
    /\ ret = <<>> /\ sources = {} /\ rerr = FALSE
IdleCache == cache = <<>> /\ inflight = {} /\ callers = <<>> /\ computeCount = <<>>
IdleGraph ==
    /\ graphDeps = <<>> /\ color = <<>> /\ dfsStack = <<>>
    /\ order = <<>> /\ level = <<>> /\ graphErr = FALSE
IdleManager ==
    /\ smConfig = None /\ defFile = <<>> /\ smStacks = <<>>
    /\ moduleToStacks = <<>> /\ stackToModules = <<>>
    /\ discovered = FALSE /\ mgrCall = None /\ mgrRet = None
    /\ assignCalls = 0
IdleHcl == hclFiles = <<>> /\ hclDefs = <<>> /\ hclRet = None /\ hclStacks = <<>>

InitGlob ==
    /\ op = "matchGlobPattern"
    /\ phase = "input"
    /\ path \in SeqsUpTo(GlobAlphabet, MaxPathLen)
    /\ pattern \in SeqsUpTo(GlobAlphabet, MaxPatternLen)
    /\ matched = None
    /\ IdleMatch /\ IdleValidate /\ IdleResolve
    /\ IdleCache /\ IdleGraph /\ IdleManager /\ IdleHcl

CallMatchGlobPattern ==
    /\ op = "matchGlobPattern"
    /\ phase = "input"
    /\ matched' = matchGlobPattern(path, pattern)
    /\ phase' = "done"
    /\ UNCHANGED <<op, path, pattern, matchVars, validateVars, resolveVars,
                   cacheVars, graphVars, managerVars, hclVars>>

NextGlob == CallMatchGlobPattern

SpecGlob == InitGlob /\ [][NextGlob]_vars

\* C1: for every pattern containing '**' (also several of them) the result
\* is true exactly when the path starts with the slash-trimmed text before
\* the FIRST '**' (if non-empty) and ends with the slash-trimmed text after
\* it (if non-empty).
FirstSplitPrefix(pat) == TrimSuffix(SubSeq(pat, 1, Index(pat, StarStar) - 1), Slash)
FirstSplitSuffix(pat) == TrimPrefix(SubSeq(pat, Index(pat, StarStar) + 2, Len(pat)), Slash)
FirstSplitMatches(p, pat) ==
    /\ FirstSplitPrefix(pat) # <<>> => HasPrefix(p, FirstSplitPrefix(pat))
    /\ FirstSplitSuffix(pat) # <<>> => HasSuffix(p, FirstSplitSuffix(pat))

C1_RecursiveWildcardFirstSplit ==
    (op = "matchGlobPattern" /\ phase = "done" /\ Contains(pattern, StarStar))
        => (matched = FirstSplitMatches(path, pattern))


(***************************************************************************)
(* MatchModuleToStacks.                                                    *)
(***************************************************************************)
MaxStacks == 2

RECURSIVE Join(_, _)
\* strings.Join
Join(elems, sep) ==
    IF elems = <<>> THEN <<>>
    ELSE IF Len(elems) = 1 THEN elems[1]
    ELSE elems[1] \o sep \o Join(Tail(elems), sep)

IsAbs(p) == p # <<>> /\ p[1] = Separator

\* The elements of a cleaned path.
Elements(p) ==
    LET body == IF IsAbs(p) THEN Tail(p) ELSE p
    IN IF body = <<>> THEN <<>> ELSE Split(body, <<Separator>>)

RECURSIVE CommonLen(_, _)
CommonLen(a, b) ==
    IF a = <<>> \/ b = <<>> \/ Head(a) # Head(b) THEN 0
    ELSE 1 + CommonLen(Tail(a), Tail(b))

\* filepath.Rel(basepath, targpath) on cleaned paths: [err, rel].
Rel(basepath, targpath) ==
    LET base == Elements(basepath)
        targ == Elements(targpath)
        k == CommonLen(base, targ)
        ups == [i \in 1..(Len(base) - k) |-> <<".", ".">>]
        rest == SubSeq(targ, k + 1, Len(targ))
    IN IF targpath = basepath
       THEN [err |-> FALSE, rel |-> <<".">>]
       ELSE IF IsAbs(basepath) # IsAbs(targpath)
            THEN [err |-> TRUE, rel |-> <<>>]
            ELSE [err |-> FALSE, rel |-> Join(ups \o rest, <<Separator>>)]

\* The relPath of MatchModuleToStacks.
RelPath(root, module) ==
    LET r == Rel(root, module)
    IN ToSlash(IF r.err THEN module ELSE r.rel)

\* The explicit module list loop.
ExplicitModuleMatches(relPath, modules) ==
    \E k \in 1..Len(modules) :
        LET explicitModule == ToSlash(modules[k])
        IN HasSuffix(relPath, explicitModule) \/ relPath = explicitModule

\* A pattern loop with its break: [hit, calls].
PatternLoop(relPath, patterns) ==
    LET hits == {k \in 1..Len(patterns) : matchGlobPattern(relPath, patterns[k])}
    IN IF hits = {}
       THEN [hit |-> FALSE, calls |-> Len(patterns)]
       ELSE [hit |-> TRUE, calls |-> CHOOSE k \in hits : \A j \in hits : k <= j]

\* The iteration without the 'continue' that ends the explicit-list branch.
MatchStack_FallsThrough(relPath, stack) ==
    LET inc == PatternLoop(relPath, stack.Include)
        exc == PatternLoop(relPath, stack.Exclude)
    IN IF Len(stack.Modules) > 0 /\ ExplicitModuleMatches(relPath, stack.Modules)
       THEN [append |-> TRUE, calls |-> 0]
       ELSE IF ~inc.hit
            THEN [append |-> FALSE, calls |-> inc.calls]
            ELSE [append |-> ~exc.hit, calls |-> inc.calls + exc.calls]

\* The iteration with the exclusion loop left out.
MatchStack_NoExclude(relPath, stack) ==
    IF Len(stack.Modules) > 0
    THEN [append |-> ExplicitModuleMatches(relPath, stack.Modules), calls |-> 0]
    ELSE LET inc == PatternLoop(relPath, stack.Include)
         IN [append |-> inc.hit, calls |-> inc.calls]

\* One iteration of the loop over the stacks: [append, calls].
MatchStack(relPath, stack) ==
    IF Len(stack.Modules) > 0
    THEN [append |-> ExplicitModuleMatches(relPath, stack.Modules), calls |-> 0]
    ELSE LET inc == PatternLoop(relPath, stack.Include)
             exc == PatternLoop(relPath, stack.Exclude)
         IN IF ~inc.hit
            THEN [append |-> FALSE, calls |-> inc.calls]
            ELSE [append |-> ~exc.hit, calls |-> inc.calls + exc.calls]

RECURSIVE MatchLoop(_, _, _)
MatchLoop(relPath, stackList, i) ==
    IF i > Len(stackList) THEN <<>>
    ELSE (IF MatchStack(relPath, stackList[i]).append
          THEN <<stackList[i].Name>> ELSE <<>>)
         \o MatchLoop(relPath, stackList, i + 1)

\* MatchModuleToStacks(modulePath, stacks, gitRoot)
MatchModuleToStacks(module, stackList, root) ==
    MatchLoop(RelPath(root, module), stackList, 1)

GlobCallsOf(module, stackList, root) ==
    [i \in 1..Len(stackList) |-> MatchStack(RelPath(root, module), stackList[i]).calls]

\* Inputs: a repository at /r, modules inside it, one outside it and one
\* given by a relative path.
StackNames == <<"s1", "s2", "s3", "s4">>
RepoRoot == <<"/", "r">>
ModulePathPool ==
    { <<"/", "r", "/", "a", "/", "v">>,
      <<"/", "r", "/", "s", "/", "v">>,
      <<"/", "r", "/", "l", "/", "s", "/", "v">>,
      <<"/", "r", "/", "u", "s", "/", "v">>,
      <<"/", "q", "/", "v">>,
      <<"s", "/", "v">> }
IncludeA == <<"a", "/", "*", "*">>
IncludeV == <<"*", "*", "/", "v">>
ExcludeS == <<"s", "/", "*">>
ModuleSV == <<"s", "/", "v">>
ModuleAV == <<"a", "/", "v">>
IncludeLists == { <<>>, <<IncludeA>>, <<IncludeV>>, <<IncludeA, IncludeV>>, <<IncludeV, IncludeA>> }
ExcludeLists == { <<>>, <<ExcludeS>> }
ModulesLists == { <<>>, <<ModuleSV>>, <<ModuleAV, ModuleSV>> }

StackConfigs == [Include : IncludeLists, Exclude : ExcludeLists, Modules : ModulesLists]

\* The stack at position i of the list is named StackNames[i].
NamedStacks(configs) ==
    [i \in 1..Len(configs) |->
        [Name |-> StackNames[i], Include |-> configs[i].Include,
         Exclude |-> configs[i].Exclude, Modules |-> configs[i].Modules]]

InitMatch ==
    /\ op = "MatchModuleToStacks"
    /\ phase = "input"
    /\ modulePath \in ModulePathPool
    /\ gitRoot = RepoRoot
    /\ \E configs \in SeqsUpTo(StackConfigs, MaxStacks) : stacks = NamedStacks(configs)
    /\ matchedStacks = <<>>
    /\ globCalls = <<>>
    /\ IdleGlob /\ IdleValidate /\ IdleResolve
    /\ IdleCache /\ IdleGraph /\ IdleManager /\ IdleHcl

CallMatchModuleToStacks ==
    /\ op = "MatchModuleToStacks"
    /\ phase = "input"
    /\ matchedStacks' = MatchModuleToStacks(modulePath, stacks, gitRoot)
    /\ globCalls' = GlobCallsOf(modulePath, stacks, gitRoot)
    /\ phase' = "done"
    /\ UNCHANGED <<op, modulePath, gitRoot, stacks, globVars, validateVars, resolveVars,
                   cacheVars, graphVars, managerVars, hclVars>>

NextMatch == CallMatchModuleToStacks

SpecMatch == InitMatch /\ [][NextMatch]_vars

MatchDone == op = "MatchModuleToStacks" /\ phase = "done"
InResult(i) == stacks[i].Name \in Range(matchedStacks)
AnyPattern(patterns) ==
    \E k \in 1..Len(patterns) :
        matchGlobPattern(RelPath(gitRoot, modulePath), patterns[k])


\* C2: a stack with a non-empty explicit modules list is decided by that
\* list alone, whatever its include and exclude patterns are, and none of
\* its patterns is evaluated.
C2_ExplicitListAuthoritative ==
    MatchDone =>
        \A i \in 1..Len(stacks) :
            Len(stacks[i].Modules) > 0 =>
                /\ InResult(i) <=>
                       ExplicitModuleMatches(RelPath(gitRoot, modulePath), stacks[i].Modules)
                /\ globCalls[i] = 0

\* A stack whose list does not name the module although its include
\* pattern matches it and no exclude does.
C2_Witness ==
    /\ MatchDone
    /\ \E i \in 1..Len(stacks) :
          /\ Len(stacks[i].Modules) > 0
          /\ AnyPattern(stacks[i].Include)
          /\ ~AnyPattern(stacks[i].Exclude)
          /\ ~InResult(i)

NameIndex(name) == CHOOSE i \in 1..Len(StackNames) : StackNames[i] = name

\* C3: a stack with an empty modules list is in the result iff an include
\* pattern matches the relative path and no exclude pattern does; the
\* result names every such stack once, in the order of the stack list.
C3_PatternStacks ==
    MatchDone =>
        /\ \A i \in 1..Len(stacks) :
              Len(stacks[i].Modules) = 0 =>
                  (InResult(i) <=>
                       (AnyPattern(stacks[i].Include) /\ ~AnyPattern(stacks[i].Exclude)))
        /\ \A a, b \in 1..Len(matchedStacks) :
              a < b => NameIndex(matchedStacks[a]) < NameIndex(matchedStacks[b])

\* One module returned for two pattern stacks, the first of which has an
\* exclude pattern that was evaluated and did not match.
C3_Witness ==
    /\ MatchDone
    /\ \E i, j \in 1..Len(stacks) :
          /\ i < j
          /\ Len(stacks[i].Modules) = 0 /\ Len(stacks[j].Modules) = 0
          /\ InResult(i) /\ InResult(j)
          /\ stacks[i].Exclude # <<>>

\* C4: an explicit modules list matches a module iff the module's relative
\* path equals one of the listed paths.
C4_ExplicitListEquality ==
    MatchDone =>
        \A i \in 1..Len(stacks) :
            Len(stacks[i].Modules) > 0 =>
                (InResult(i) <=>
                     \E k \in 1..Len(stacks[i].Modules) :
                         RelPath(gitRoot, modulePath) = ToSlash(stacks[i].Modules[k]))


(***************************************************************************)
(* ValidateStackDefinition.                                                *)
(***************************************************************************)
MaxDefStacks == 3

SupportedVersion == 1

Nil == "nil"
ErrVersion == "unsupported stack definition version"
ErrNoStacks == "no stacks defined"
ErrNoName == "stack has no name"
ErrDuplicate == "duplicate stack name"
ErrNeither == "must specify either 'include' patterns or 'modules' list"
ErrEmptyPattern == "empty include pattern"

\* The loop body with the duplicate-name check left out.
CheckStack_NoDuplicateCheck(stack, stackNames) ==
    IF stack.Name = "" THEN ErrNoName
    ELSE IF Len(stack.Include) = 0 /\ Len(stack.Modules) = 0 THEN ErrNeither
    ELSE IF \E k \in 1..Len(stack.Include) : stack.Include[k] = <<>> THEN ErrEmptyPattern
    ELSE Nil

\* The loop body with the include-or-modules check left out.
CheckStack_NoNeitherCheck(stack, stackNames) ==
    IF stack.Name = "" THEN ErrNoName
    ELSE IF stack.Name \in stackNames THEN ErrDuplicate
    ELSE IF \E k \in 1..Len(stack.Include) : stack.Include[k] = <<>> THEN ErrEmptyPattern
    ELSE Nil

\* The loop body with the empty-pattern check left out.
CheckStack_NoEmptyPatternCheck(stack, stackNames) ==
    IF stack.Name = "" THEN ErrNoName
    ELSE IF stack.Name \in stackNames THEN ErrDuplicate
    ELSE IF Len(stack.Include) = 0 /\ Len(stack.Modules) = 0 THEN ErrNeither
    ELSE Nil

\* The body of the loop over def.Stacks; stackNames holds the names of the
\* stacks before this one.
CheckStack(stack, stackNames) ==
    IF stack.Name = "" THEN ErrNoName
    ELSE IF stack.Name \in stackNames THEN ErrDuplicate
    ELSE IF Len(stack.Include) = 0 /\ Len(stack.Modules) = 0 THEN ErrNeither
    ELSE IF \E k \in 1..Len(stack.Include) : stack.Include[k] = <<>> THEN ErrEmptyPattern
    ELSE Nil

RECURSIVE ValidateLoop(_, _, _)
ValidateLoop(stackList, i, stackNames) ==
    IF i > Len(stackList) THEN Nil
    ELSE IF CheckStack(stackList[i], stackNames) # Nil
         THEN CheckStack(stackList[i], stackNames)
         ELSE ValidateLoop(stackList, i + 1, stackNames \cup {stackList[i].Name})

\* Validation with the empty-list check ahead of the version check.
ValidateStackDefinition_StacksFirst(d) ==
    IF Len(d.Stacks) = 0 THEN ErrNoStacks
    ELSE IF d.Version # SupportedVersion THEN ErrVersion
    ELSE ValidateLoop(d.Stacks, 1, {})

\* ValidateStackDefinition(def)
ValidateStackDefinition(d) ==
    IF d.Version # SupportedVersion THEN ErrVersion
    ELSE IF Len(d.Stacks) = 0 THEN ErrNoStacks
    ELSE ValidateLoop(d.Stacks, 1, {})

Versions == {0, 1, 2}
DefNames == {"", "x", "y"}
DefIncludeLists == { <<>>, <<IncludeA>>, <<<<>>>>, <<IncludeA, <<>>>> }
DefModulesLists == { <<>>, <<ModuleSV>> }

DefAtlantis ==
    [Workflow |-> "terragrunt", AutoPlan |-> TRUE, Parallel |-> FALSE,
     ApplyRequirements |-> <<"approved">>, ExecutionOrderGroup |-> 0,
     Workspace |-> "default", TerraformVersion |-> ""]

DefStackConfigs ==
    [Name : DefNames, Description : {""}, Include : DefIncludeLists, Exclude : {<<>>},
     Modules : DefModulesLists, DependsOn : {<<>>}, Atlantis : {DefAtlantis}]

ExternalSource == "external-file"

\* ConvertExternalStacksToStacks(externalStacks, gitRoot)
ConvertExternalStacksToStacks(externalStacks) ==
    [i \in 1..Len(externalStacks) |->
        [Name |-> externalStacks[i].Name,
         Description |-> externalStacks[i].Description,
         Modules |-> externalStacks[i].Modules,
         Dependencies |-> externalStacks[i].DependsOn,
         Source |-> ExternalSource,
         AtlantisConfig |->
             [Workflow |-> externalStacks[i].Atlantis.Workflow,
              AutoPlan |-> externalStacks[i].Atlantis.AutoPlan,
              Parallel |-> externalStacks[i].Atlantis.Parallel,
              ApplyRequirements |-> externalStacks[i].Atlantis.ApplyRequirements,
              Workspace |-> externalStacks[i].Atlantis.Workspace,
              TerraformVersion |-> externalStacks[i].Atlantis.TerraformVersion],
         ExecutionOrder |-> externalStacks[i].Atlantis.ExecutionOrderGroup]]

InitValidate ==
    /\ op = "ValidateStackDefinition"
    /\ phase = "input"
    /\ def \in [Version : Versions, Stacks : SeqsUpTo(DefStackConfigs, MaxDefStacks)]
    /\ verr = None
    /\ converted = <<>>
    /\ IdleGlob /\ IdleMatch /\ IdleResolve
    /\ IdleCache /\ IdleGraph /\ IdleManager /\ IdleHcl

CallValidateStackDefinition ==
    /\ op = "ValidateStackDefinition"
    /\ phase = "input"
    /\ verr' = ValidateStackDefinition(def)
    /\ phase' = "done"
    /\ UNCHANGED <<op, def, converted, globVars, matchVars, resolveVars,
                   cacheVars, graphVars, managerVars, hclVars>>

\* The stacks of a definition that passed the validation are converted.
CallConvertExternalStacksToStacks ==
    /\ op = "ValidateStackDefinition"
    /\ phase = "done"
    /\ verr = Nil
    /\ converted' = ConvertExternalStacksToStacks(def.Stacks)
    /\ phase' = "converted"
    /\ UNCHANGED <<op, def, verr, globVars, matchVars, resolveVars,
                   cacheVars, graphVars, managerVars, hclVars>>

NextValidate == CallValidateStackDefinition \/ CallConvertExternalStacksToStacks

SpecValidate == InitValidate /\ [][NextValidate]_vars

ValidateDone == op = "ValidateStackDefinition" /\ phase = "done"

\* C5: every definition whose version is not 1 fails with the unsupported
\* version error, whatever its stack list holds.
C5_UnsupportedVersion ==
    (ValidateDone /\ def.Version # 1) => verr = ErrVersion

\* A definition of another version whose stack list is empty.
C5_Witness ==
    ValidateDone /\ def.Version # 1 /\ def.Stacks = <<>> /\ verr = ErrVersion

HasNeither(i) == def.Stacks[i].Include = <<>> /\ def.Stacks[i].Modules = <<>>
SharesEarlierName(j) == \E i \in 1..(j - 1) : def.Stacks[i].Name = def.Stacks[j].Name

\* What the validation requires of the stack at index j.
StackPasses(j) ==
    /\ def.Stacks[j].Name # ""
    /\ ~SharesEarlierName(j)
    /\ ~HasNeither(j)
    /\ \A k \in 1..Len(def.Stacks[j].Include) : def.Stacks[j].Include[k] # <<>>

\* C6 as stated: a version 1 definition holding a stack with neither
\* include patterns nor modules fails with the 'must specify either' error.
C6_NeitherAlwaysMustSpecify ==
    (ValidateDone /\ def.Version = 1 /\ \E i \in 1..Len(def.Stacks) : HasNeither(i))
        => verr = ErrNeither

\* C6 amended: such a definition always fails; the error is the 'must
\* specify either' error when the stack without include patterns and
\* modules has a non-empty name that no earlier stack has and every
\* earlier stack passes all its checks.
C6_NeitherFailsFirstCheckWins ==
    (ValidateDone /\ def.Version = 1) =>
        \A i \in 1..Len(def.Stacks) :
            HasNeither(i) =>
                /\ verr # Nil
                /\ ( /\ \A j \in 1..(i - 1) : StackPasses(j)
                     /\ def.Stacks[i].Name # ""
                     /\ ~SharesEarlierName(i) ) => verr = ErrNeither

\* A second stack with neither include patterns nor modules after a valid
\* first one.
C6_Witness ==
    /\ ValidateDone /\ def.Version = 1
    /\ Len(def.Stacks) >= 2 /\ StackPasses(1) /\ HasNeither(2)
    /\ verr = ErrNeither

\* C7 as stated: a version 1 definition in which two stacks share a name
\* fails with the 'duplicate stack name' error.
C7_SharedNameAlwaysDuplicate ==
    (ValidateDone /\ def.Version = 1 /\ \E j \in 1..Len(def.Stacks) : SharesEarlierName(j))
        => verr = ErrDuplicate

\* C7 amended: such a definition always fails; the error is the
\* 'duplicate stack name' error when every stack before the repeated
\* occurrence of the name passes all its checks.
C7_SharedNameFailsFirstCheckWins ==
    (ValidateDone /\ def.Version = 1) =>
        \A j \in 1..Len(def.Stacks) :
            SharesEarlierName(j) =>
                /\ verr # Nil
                /\ (\A i \in 1..(j - 1) : StackPasses(i)) => verr = ErrDuplicate

\* A valid stack followed by a stack of the same name.
C7_Witness ==
    /\ ValidateDone /\ def.Version = 1
    /\ Len(def.Stacks) >= 2 /\ StackPasses(1)
    /\ def.Stacks[2].Name = def.Stacks[1].Name
    /\ verr = ErrDuplicate


(***************************************************************************)
(* The local module source resolver: parseTerraformLocalModuleSource and   *)
(* parseTerraformLocalModuleSourceOpenTofu, one step per statement that    *)
(* loads a module, iterates a module call, calls or returns.               *)
(***************************************************************************)
NumDirs == 2
MaxCalls == 2

DirNames == <<"d1", "d2", "d3", "d4">>
Dirs == {DirNames[i] : i \in 1..NumDirs}
RootDir == DirNames[1]
MissingDir == "missing"

\* The recursion depth taken for the exhaustion of the goroutine stack: in
\* a tree without cyclic sources the calls nest at most NumDirs + 1 deep
\* (a chain of distinct directories, one of them entered by both
\* functions), so a call made at this depth re-enters a directory that is
\* still being resolved.
StackLimit == NumDirs + 1

localModuleSourcePrefixes == {"./", "../", ".\\", "..\\"}

\* A module call source: its leading text and the directory that
\* util.JoinPath(path, source) names.
LocalSources == [prefix : {"../"}, to : Dirs]
RemoteSources == [prefix : {"git::"}, to : {MissingDir}]
SourcePool == LocalSources \cup RemoteSources

\* A test that takes every source for a local one.
isLocalTerraformModuleSource_Always(raw) == TRUE
\* isLocalTerraformModuleSource(raw)
isLocalTerraformModuleSource(raw) == raw.prefix \in localModuleSourcePrefixes

\* util.JoinPath(path, mc.Source): the cleaned directory.
JoinPath(dir, raw) == raw.to

\* util.JoinPath(modulePath, "*.tf*")
TfGlob(dir) == <<dir, "*.tf*">>

\* The pattern appended by parseTerraformFilesWithOpenTofuSupport.
OwnTfPattern == <<"*.tf*">>

ProviderReference == "Invalid provider reference"
ProviderAddress == "Invalid provider configuration address"
SyntaxError == "Unsupported block type"
ReadError == "Failed to read module directory"

DiagSets ==
    { {}, {ProviderReference}, {ProviderAddress}, {SyntaxError},
      {ProviderReference, SyntaxError} }

\* tfconfig.LoadModule(path): the error diagnostics and the module calls.
LoadModule(dir) ==
    IF dir \in DOMAIN moduleDiags
    THEN [diags |-> moduleDiags[dir], calls |-> moduleCalls[dir]]
    ELSE [diags |-> {ReadError}, calls |-> {}]

HasErrors(diags) == diags # {}

\* The scan that recognises only the "Invalid provider reference" summary.
providerRefError_ReferenceOnly(diags) == ProviderReference \in diags

\* The scan of the diagnostics for a provider reference summary.
providerRefError(diags) ==
    \E summary \in diags : summary \in {ProviderReference, ProviderAddress}

\* parseTerraformFilesWithOpenTofuSupport(path)
parseTerraformFilesWithOpenTofuSupport(dir) == [err |-> FALSE, sources |-> {OwnTfPattern}]

ErrorResult == [err |-> TRUE, sources |-> {}]

\* 'var sourceMap = map[string]bool{}' with the module's own glob put in.
NewSourceMap_WithOwnGlob(dir) == {OwnTfPattern}

\* var sourceMap = map[string]bool{}
NewSourceMap(dir) == {}

Frame(fn, dir) ==
    [fn |-> fn, path |-> dir, pc |-> IF fn = "wrapper" THEN "try" ELSE "load",
     todo |-> {}, sourceMap |-> {}]

Top == callStack[Len(callStack)]
Running == op = "parseTerraformLocalModuleSource" /\ phase = "running"
SetTop(f) == [callStack EXCEPT ![Len(callStack)] = f]

\* The innermost call returns value to its caller, or to the outside.
ReturnValue(value) ==
    IF Len(callStack) = 1
    THEN /\ callStack' = <<>>
         /\ ret' = <<>>
         /\ sources' = value.sources
         /\ rerr' = value.err
         /\ phase' = "done"
    ELSE /\ callStack' = SubSeq(callStack, 1, Len(callStack) - 1)
         /\ ret' = <<value>>
         /\ UNCHANGED <<sources, rerr, phase>>

\* A call of fn(dir) from the innermost frame, left in state f.
CallFrom(f, fn, dir) ==
    IF Len(callStack) >= StackLimit
    THEN /\ phase' = "overflow"
         /\ UNCHANGED <<callStack, ret, sources, rerr>>
    ELSE /\ callStack' = Append(SetTop(f), Frame(fn, dir))
         /\ UNCHANGED <<phase, ret, sources, rerr>>

Trees ==
    {t \in [diags : [Dirs -> DiagSets], calls : [Dirs -> SUBSET SourcePool]] :
        \A d \in Dirs : Cardinality(t.calls[d]) <= MaxCalls}

InitResolve ==
    /\ op = "parseTerraformLocalModuleSource"
    /\ phase = "input"
    /\ \E t \in Trees : moduleDiags = t.diags /\ moduleCalls = t.calls
    /\ callStack = <<>>
    /\ ret = <<>> /\ sources = {} /\ rerr = FALSE
    /\ IdleGlob /\ IdleMatch /\ IdleValidate
    /\ IdleCache /\ IdleGraph /\ IdleManager /\ IdleHcl

\* parseTerraformLocalModuleSource(path) is called on the root module.
CallParseTerraformLocalModuleSource ==
    /\ op = "parseTerraformLocalModuleSource"
    /\ phase = "input"
    /\ callStack' = <<Frame("wrapper", RootDir)>>
    /\ phase' = "running"
    /\ UNCHANGED <<op, moduleDiags, moduleCalls, ret, sources, rerr,
                   globVars, matchVars, validateVars,
                   cacheVars, graphVars, managerVars, hclVars>>

\* parseTerraformLocalModuleSource: 'Try OpenTofu-aware parsing first'.
TryOpenTofu ==
    /\ Running
    /\ Top.fn = "wrapper" /\ Top.pc = "try"
    /\ CallFrom([Top EXCEPT !.pc = "tried"], "otf", Top.path)
    /\ UNCHANGED <<op, moduleDiags, moduleCalls, globVars, matchVars, validateVars,
                   cacheVars, graphVars, managerVars, hclVars>>

\* parseTerraformLocalModuleSource: 'if err == nil return', else the
\* standard parsing 'tfconfig.LoadModule' and its error return.
AfterOpenTofu ==
    /\ Running
    /\ Top.fn = "wrapper" /\ Top.pc = "tried" /\ ret # <<>>
    /\ LET m == LoadModule(Top.path)
       IN IF ~ret[1].err
          THEN ReturnValue(ret[1])
          ELSE IF HasErrors(m.diags)
               THEN ReturnValue(ErrorResult)
               ELSE /\ callStack' = SetTop([Top EXCEPT !.pc = "loop", !.todo = m.calls,
                                                       !.sourceMap = NewSourceMap(Top.path)])
                    /\ ret' = <<>>
                    /\ UNCHANGED <<phase, sources, rerr>>
    /\ UNCHANGED <<op, moduleDiags, moduleCalls, globVars, matchVars, validateVars,
                   cacheVars, graphVars, managerVars, hclVars>>

\* parseTerraformLocalModuleSourceOpenTofu: LoadModule, the scan of the
\* diagnostics, the error return and the fallback.
LoadOpenTofu ==
    /\ Running
    /\ Top.fn = "otf" /\ Top.pc = "load"
    /\ LET m == LoadModule(Top.path)
       IN IF HasErrors(m.diags)
          THEN IF ~providerRefError(m.diags)
               THEN ReturnValue(ErrorResult)
               ELSE ReturnValue(parseTerraformFilesWithOpenTofuSupport(Top.path))
          ELSE /\ callStack' = SetTop([Top EXCEPT !.pc = "loop", !.todo = m.calls,
                                                  !.sourceMap = NewSourceMap(Top.path)])
               /\ UNCHANGED <<phase, ret, sources, rerr>>
    /\ UNCHANGED <<op, moduleDiags, moduleCalls, globVars, matchVars, validateVars,
                   cacheVars, graphVars, managerVars, hclVars>>

\* One iteration of 'for _, mc := range module.ModuleCalls' (a map, ranged
\* in any order) up to the recursive call.
IterateModuleCall ==
    /\ Running
    /\ Top.pc = "loop"
    /\ \E mc \in Top.todo :
          LET rest == [Top EXCEPT !.todo = Top.todo \ {mc}]
              modulePath_ == JoinPath(Top.path, mc)
              modulePathGlob == TfGlob(modulePath_)
          IN IF ~isLocalTerraformModuleSource(mc) \/ modulePathGlob \in Top.sourceMap
             THEN /\ callStack' = SetTop(rest)
                  /\ UNCHANGED <<phase, ret, sources, rerr>>
             ELSE CallFrom([rest EXCEPT !.pc = "await",
                                        !.sourceMap = Top.sourceMap \cup {modulePathGlob}],
                           Top.fn, modulePath_)
    /\ UNCHANGED <<op, moduleDiags, moduleCalls, globVars, matchVars, validateVars,
                   cacheVars, graphVars, managerVars, hclVars>>

\* The recursive call has returned: 'if err != nil return nil, err', else
\* the sub-sources are put into sourceMap.
AfterRecursiveCall ==
    /\ Running
    /\ Top.pc = "await" /\ ret # <<>>
    /\ IF ret[1].err
       THEN ReturnValue(ErrorResult)
       ELSE /\ callStack' = SetTop([Top EXCEPT !.pc = "loop",
                                               !.sourceMap = Top.sourceMap \cup ret[1].sources])
            /\ ret' = <<>>
            /\ UNCHANGED <<phase, sources, rerr>>
    /\ UNCHANGED <<op, moduleDiags, moduleCalls, globVars, matchVars, validateVars,
                   cacheVars, graphVars, managerVars, hclVars>>

\* The loop is over: the keys of sourceMap are returned.
ReturnSources ==
    /\ Running
    /\ Top.pc = "loop" /\ Top.todo = {}
    /\ ReturnValue([err |-> FALSE, sources |-> Top.sourceMap])
    /\ UNCHANGED <<op, moduleDiags, moduleCalls, globVars, matchVars, validateVars,
                   cacheVars, graphVars, managerVars, hclVars>>

NextResolve ==
    \/ CallParseTerraformLocalModuleSource
    \/ TryOpenTofu
    \/ AfterOpenTofu
    \/ LoadOpenTofu
    \/ IterateModuleCall
    \/ AfterRecursiveCall
    \/ ReturnSources

SpecResolve == InitResolve /\ [][NextResolve]_vars


ResolveDone == op = "parseTerraformLocalModuleSource" /\ phase = "done"

\* The root module parses and none of its module calls has a local source.
RootWithoutLocalSources ==
    /\ moduleDiags[RootDir] = {}
    /\ \A mc \in moduleCalls[RootDir] : mc.prefix \notin {"./", "../", ".\\", "..\\"}

\* C8 as stated: for a module that parses and has no local module source
\* the resolver returns exactly the module's own glob.
C8_NoLocalSourcesOwnGlob ==
    (ResolveDone /\ RootWithoutLocalSources) =>
        (~rerr /\ sources \in {{OwnTfPattern}, {TfGlob(RootDir)}})

\* C8 amended: for a module that parses and has no local module source
\* the resolver returns no error and an empty watch set; the module's own
\* glob is not part of the resolver's result.
C8_NoLocalSourcesEmpty ==
    (ResolveDone /\ RootWithoutLocalSources) => (~rerr /\ sources = {})

\* A root module whose only module call has a remote source.
C8_Witness ==
    /\ ResolveDone /\ RootWithoutLocalSources
    /\ moduleCalls[RootDir] # {}
    /\ ~rerr /\ sources = {}

\* C9: the resolver terminates on every module tree, cyclic ones included:
\* the recursion never grows past what a visited set allows.
C9_ResolverTerminates == phase # "overflow"

IsProviderSummary(summary) ==
    summary \in {"Invalid provider reference", "Invalid provider configuration address"}

\* C10: a module whose parse fails with a provider reference diagnostic
\* never makes the resolver fail: resolving it returns no error and a
\* result holding the module's own pattern, and a resolution that does
\* fail has a module whose diagnostics hold no provider reference summary.
C10_ProviderReferenceNeverFails ==
    ResolveDone =>
        /\ (\E summary \in moduleDiags[RootDir] : IsProviderSummary(summary))
               => (~rerr /\ OwnTfPattern \in sources)
        /\ rerr => \E d \in Dirs :
                      /\ moduleDiags[d] # {}
                      /\ \A summary \in moduleDiags[d] : ~IsProviderSummary(summary)

\* The root module fails with 'Invalid provider configuration address'.
C10_Witness ==
    /\ ResolveDone
    /\ moduleDiags[RootDir] = {ProviderAddress}
    /\ ~rerr /\ sources = {OwnTfPattern}

\* C11: whenever the diagnostics of the module hold an error that is not of
\* the provider reference shape, its resolution fails, also when the same
\* list holds a provider reference error as well.
C11_RealSyntaxErrorFails ==
    (ResolveDone /\ \E summary \in moduleDiags[RootDir] : ~IsProviderSummary(summary))
        => rerr

\* ---------------------------------------------------------------------------
\* Resolution cache: getOrCompute(key, computeFn), called by concurrent workers.
\* The cache is the one reset by resetForRun; its contract is section 4.2 of the
\* design.
\* ---------------------------------------------------------------------------

NumCallers == 3
Callers == 1..NumCallers
Keys == {"k1", "k2"}
\* What one execution of computeFn can end in: a success value or a failure.
Outcomes == {"sources", "error"}

Caller(key, pc, result, via) == [key |-> key, pc |-> pc, result |-> result, via |-> via]

Cached(key) == cache[key] # None

InFlight_Never(key) == FALSE
\* A computation for the key has been started and has not completed.
InFlight(key) == key \in inflight

InitCache ==
    /\ op = "getOrCompute"
    /\ phase = "run"
    /\ cache = [key \in Keys |-> None]
    /\ inflight = {}
    /\ callers \in [Callers -> {Caller(key, "call", None, None) : key \in Keys}]
    /\ computeCount = [key \in Keys |-> 0]
    /\ IdleGlob /\ IdleMatch /\ IdleValidate /\ IdleResolve
    /\ IdleGraph /\ IdleManager /\ IdleHcl

cacheOthers == <<op, phase, globVars, matchVars, validateVars, resolveVars, graphVars, managerVars, hclVars>>

\* Entry of getOrCompute: a stored result is returned, a computation in flight
\* is joined, and otherwise the caller becomes the one that computes.
GetOrCompute(c) ==
    LET key == callers[c].key IN
    /\ callers[c].pc = "call"
    /\ IF Cached(key)
         THEN /\ callers' = [callers EXCEPT ![c] = Caller(key, "done", cache[key], "cached")]
              /\ UNCHANGED inflight
         ELSE IF InFlight(key)
           THEN /\ callers' = [callers EXCEPT ![c].pc = "waiting"]
                /\ UNCHANGED inflight
           ELSE /\ callers' = [callers EXCEPT ![c].pc = "computing"]
                /\ inflight' = inflight \cup {key}
    /\ UNCHANGED <<cache, computeCount, cacheOthers>>

\* The computing caller runs computeFn; the outcome is still its own.
RunComputeFn(c) ==
    LET key == callers[c].key IN
    /\ callers[c].pc = "computing"
    /\ \E outcome \in Outcomes :
         callers' = [callers EXCEPT ![c] = Caller(key, "computed", outcome, None)]
    /\ computeCount' = [computeCount EXCEPT ![key] = @ + 1]
    /\ UNCHANGED <<cache, inflight, cacheOthers>>

\* The outcome, a success or a failure, is stored and the computation completes.
Publish(c) ==
    LET key == callers[c].key IN
    /\ callers[c].pc = "computed"
    /\ cache' = [cache EXCEPT ![key] = callers[c].result]
    /\ inflight' = inflight \ {key}
    /\ callers' = [callers EXCEPT ![c] = Caller(key, "done", callers[c].result, "computed")]
    /\ UNCHANGED <<computeCount, cacheOthers>>

\* A caller that joined a computation wakes once it has completed.
Await(c) ==
    LET key == callers[c].key IN
    /\ callers[c].pc = "waiting"
    /\ ~InFlight(key)
    /\ callers' = [callers EXCEPT ![c] = Caller(key, "done", cache[key], "awaited")]
    /\ UNCHANGED <<cache, inflight, computeCount, cacheOthers>>

NextCache ==
    \E c \in Callers : GetOrCompute(c) \/ RunComputeFn(c) \/ Publish(c) \/ Await(c)

SpecCache == InitCache /\ [][NextCache]_vars

CallersOf(key) == {c \in Callers : callers[c].key = key}
Received(c) == callers[c].pc = "done"

\* C12: for every key the compute function runs at most once, exactly once by
\* the time a caller has its result, and every caller that has a result has the
\* one stored outcome of that run, a success or a failure, never a value that is
\* not an outcome.
C12_SingleFlight ==
    \A key \in Keys :
        /\ computeCount[key] <= 1
        /\ \A c \in CallersOf(key) :
             Received(c) =>
                 /\ computeCount[key] = 1
                 /\ callers[c].result \in Outcomes
                 /\ callers[c].result = cache[key]
                 /\ \A other \in CallersOf(key) :
                      Received(other) => callers[other].result = callers[c].result

\* All callers asked for one key before its computation completed: one of them
\* computed, the others waited, and all of them hold the result.
C12_Witness ==
    \E key \in Keys, first \in Callers :
        /\ CallersOf(key) = Callers
        /\ callers[first].via = "computed"
        /\ \A c \in Callers \ {first} : Received(c) /\ callers[c].via = "awaited"
        /\ computeCount[key] = 1

\* ---------------------------------------------------------------------------
\* Dependency graph builder: cycle detection by depth-first traversal, then
\* execution-order leveling in topological order (section 4.3 of the design).
\* Modules are numbered; the traversal takes modules and dependencies in
\* ascending order.
\* ---------------------------------------------------------------------------

NumModules == 3
Modules == 1..NumModules
BaseLevel == 0
Unset == -1

Max(S) == CHOOSE x \in S : \A y \in S : y <= x
Min(S) == CHOOSE x \in S : \A y \in S : x <= y

OnPath_Never(d) == FALSE
\* The gray check: the module is one the traversal is currently visiting.
OnPath(d) == color[d] = "gray"

LevelOf_MinDependency(n) ==
    IF graphDeps[n] = {} THEN BaseLevel
    ELSE 1 + Min({level[d] : d \in graphDeps[n]})
\* level(n) = 1 + max(level(d) for d in dependencies(n)), or the base level.
LevelOf(n) ==
    IF graphDeps[n] = {} THEN BaseLevel
    ELSE 1 + Max({level[d] : d \in graphDeps[n]})

VisitFrame(node) == [node |-> node, todo |-> graphDeps[node]]

InitGraph ==
    /\ op = "buildGraph"
    /\ phase = "dfs"
    /\ graphDeps \in [Modules -> SUBSET Modules]
    /\ color = [m \in Modules |-> "white"]
    /\ dfsStack = <<>>
    /\ order = <<>>
    /\ level = [m \in Modules |-> Unset]
    /\ graphErr = FALSE
    /\ IdleGlob /\ IdleMatch /\ IdleValidate /\ IdleResolve
    /\ IdleCache /\ IdleManager /\ IdleHcl

graphOthers == <<op, globVars, matchVars, validateVars, resolveVars, cacheVars, managerVars, hclVars>>

White == {m \in Modules : color[m] = "white"}

\* The traversal starts from the next module it has not visited.
DfsStart ==
    /\ phase = "dfs" /\ dfsStack = <<>> /\ White # {}
    /\ LET m == Min(White) IN
         /\ color' = [color EXCEPT ![m] = "gray"]
         /\ dfsStack' = <<VisitFrame(m)>>
    /\ UNCHANGED <<phase, graphDeps, order, level, graphErr, graphOthers>>

\* The next dependency of the module being visited: a module on the current
\* path is a cycle and ends the construction in a graph error, an unvisited one
\* is descended into, a finished one is passed over.
DfsVisit ==
    /\ phase = "dfs" /\ dfsStack # <<>>
    /\ LET top == dfsStack[Len(dfsStack)]
           d == Min(top.todo)
           rest == [dfsStack EXCEPT ![Len(dfsStack)].todo = @ \ {d}]
       IN /\ top.todo # {}
          /\ IF OnPath(d)
               THEN /\ graphErr' = TRUE
                    /\ phase' = "done"
                    /\ dfsStack' = rest
                    /\ UNCHANGED color
               ELSE IF color[d] = "white"
                 THEN /\ color' = [color EXCEPT ![d] = "gray"]
                      /\ dfsStack' = Append(rest, VisitFrame(d))
                      /\ UNCHANGED <<graphErr, phase>>
                 ELSE /\ dfsStack' = rest
                      /\ UNCHANGED <<color, graphErr, phase>>
    /\ UNCHANGED <<graphDeps, order, level, graphOthers>>

\* A module all of whose dependencies are done is finished: it is appended to
\* the topological order; the traversal ends when no module is left.
DfsFinish ==
    /\ phase = "dfs" /\ dfsStack # <<>>
    /\ LET top == dfsStack[Len(dfsStack)] IN
         /\ top.todo = {}
         /\ color' = [color EXCEPT ![top.node] = "black"]
         /\ order' = Append(order, top.node)
         /\ dfsStack' = SubSeq(dfsStack, 1, Len(dfsStack) - 1)
         /\ phase' = IF Len(dfsStack) = 1 /\ White = {} THEN "level" ELSE "dfs"
    /\ UNCHANGED <<graphDeps, level, graphErr, graphOthers>>

\* Leveling takes the modules in topological order.
AssignLevel ==
    /\ phase = "level"
    /\ LET i == Min({j \in 1..Len(order) : level[order[j]] = Unset})
           n == order[i]
       IN /\ level' = [level EXCEPT ![n] = LevelOf(n)]
          /\ phase' = IF i = Len(order) THEN "done" ELSE "level"
    /\ UNCHANGED <<graphDeps, color, dfsStack, order, graphErr, graphOthers>>

NextGraph == DfsStart \/ DfsVisit \/ DfsFinish \/ AssignLevel

SpecGraph == InitGraph /\ [][NextGraph]_vars

RECURSIVE Closure(_, _)
Closure(S, n) ==
    IF n = 0 THEN S
    ELSE Closure(S \cup UNION {graphDeps[m] : m \in S}, n - 1)
\* The full transitive dependency set of a module.
TransitiveDeps(m) == Closure(graphDeps[m], NumModules)
Acyclic == \A m \in Modules : m \notin TransitiveDeps(m)
HasCycleOfTwoOrMore ==
    \E a, b \in Modules : a # b /\ b \in TransitiveDeps(a) /\ a \in TransitiveDeps(b)
GraphDone == op = "buildGraph" /\ phase = "done"

\* C13: for an acyclic configuration the construction ends without a graph
\* error, a module without dependencies has the base level, and every other
\* module has a level above that of each direct dependency, equal to one more
\* than the highest of them.
C13_LevelsAreLongestPath ==
    (GraphDone /\ Acyclic) =>
        /\ ~graphErr
        /\ \A m \in Modules :
             IF graphDeps[m] = {} THEN level[m] = BaseLevel
             ELSE /\ \A d \in graphDeps[m] : level[m] > level[d]
                  /\ level[m] = 1 + Max({level[d] : d \in graphDeps[m]})

\* A leveled acyclic graph in which a module has two dependencies of different
\* levels.
C13_Witness ==
    /\ GraphDone /\ Acyclic /\ ~graphErr
    /\ \E m \in Modules : \E d, e \in graphDeps[m] : level[d] < level[e] /\ level[e] < level[m]

\* C14: a configuration holding a cycle through two or more modules ends in a
\* graph error, and no module of it is given a level.
C14_CycleIsGraphError ==
    (GraphDone /\ HasCycleOfTwoOrMore) =>
        /\ graphErr
        /\ \A m \in Modules : level[m] = Unset

\* A configuration whose only cycles pass through two or more modules was
\* rejected.
C14_Witness ==
    /\ GraphDone /\ HasCycleOfTwoOrMore /\ graphErr
    /\ \A m \in Modules : m \notin graphDeps[m] /\ level[m] = Unset

\* ---------------------------------------------------------------------------
\* StackManager: NewStackManager, DiscoverStacks, AssignModulesToStacks,
\* GenerateStackProject, GetStackForModule, ValidateStackCoverage.
\* A Go map is a function on its keys; a nil pointer or nil slice is Absent.
\* ---------------------------------------------------------------------------

Absent == <<>>
Some(x) == <<x>>

\* m[k] of a Go map: the zero value (an empty list) for a key it does not hold.
Lookup(m, k) == IF k \in DOMAIN m THEN m[k] ELSE <<>>
\* m[k] = append(m[k], v)
MapAppend(m, k, v) ==
    [x \in DOMAIN m \cup {k} |-> IF x = k THEN Append(Lookup(m, k), v) ELSE m[x]]

loadStackDefinitionFile == <<>>
inferStacksFromDirectory == <<>>
moduleMatchesStack(module, stack) == FALSE
findCommonParent(modules) == <<".">>
ValidateStackCoverage(allModules) == Nil
GetStackForModule_DefaultStack(module) ==
    IF module \in DOMAIN moduleToStacks THEN moduleToStacks[module] ELSE <<"default">>
GetStackForModule(module) == Lookup(moduleToStacks, module)

\* DiscoverStacks: the stacks of the configured sources, concatenated.
DiscoverStacks ==
    (IF smConfig.DefinitionFile # "" THEN loadStackDefinitionFile ELSE <<>>)
        \o (IF smConfig.InferFromDir THEN inferStacksFromDirectory ELSE <<>>)

\* The loops of AssignModulesToStacks from stack i, module j on:
\* [assignments, moduleToStacks].
RECURSIVE AssignLoop(_, _, _, _, _)
AssignLoop(modules, i, j, assignments, m2s) ==
    IF i > Len(smStacks) THEN [assignments |-> assignments, moduleToStacks |-> m2s]
    ELSE IF j > Len(modules) THEN AssignLoop(modules, i + 1, 1, assignments, m2s)
    ELSE IF moduleMatchesStack(modules[j], smStacks[i])
         THEN AssignLoop(modules, i, j + 1,
                         MapAppend(assignments, smStacks[i].Name, modules[j]),
                         MapAppend(m2s, modules[j], smStacks[i].Name))
         ELSE AssignLoop(modules, i, j + 1, assignments, m2s)

AssignModulesToStacks(modules) == AssignLoop(modules, 1, 1, <<>>, moduleToStacks)

\* The first occurrence of every string, in order.
RECURSIVE uniqueStrings(_)
uniqueStrings(list) ==
    IF list = <<>> THEN <<>>
    ELSE LET init == uniqueStrings(SubSeq(list, 1, Len(list) - 1))
             last == list[Len(list)]
         IN IF last \in Range(init) THEN init ELSE Append(init, last)

BaseDependencies ==
    << <<"*", ".", "h", "c", "l">>, <<"*", ".", "t", "f", "*">>,
       <<"*", "*", "/", "*", ".", "h", "c", "l">>, <<"*", "*", "/", "*", ".", "t", "f", "*">> >>

\* The modules of the stacks the stack depends on, for those that have an
\* entry in stackToModules.
RECURSIVE StackLevelDependencies(_)
StackLevelDependencies(dependencies) ==
    IF dependencies = <<>> THEN <<>>
    ELSE Lookup(stackToModules, Head(dependencies))
             \o StackLevelDependencies(Tail(dependencies))

ProjectApplyRequirements(stack) ==
    IF Len(stack.AtlantisConfig.ApplyRequirements) > 0
    THEN Some(stack.AtlantisConfig.ApplyRequirements) ELSE Absent

ProjectExecutionOrderGroup_NotNegative(stack) ==
    IF stack.ExecutionOrder >= 0 THEN Some(stack.ExecutionOrder) ELSE Absent
ProjectExecutionOrderGroup(stack) ==
    IF stack.ExecutionOrder > 0 THEN Some(stack.ExecutionOrder) ELSE Absent

ProjectDependsOn_Unique(stack) ==
    IF Len(stack.Dependencies) > 0 THEN Some(uniqueStrings(stack.Dependencies)) ELSE Absent
ProjectDependsOn_KnownOnly(stack) ==
    LET known == SelectSeq(stack.Dependencies, LAMBDA d : d \in DOMAIN stackToModules)
    IN IF Len(known) > 0 THEN Some(known) ELSE Absent
ProjectDependsOn(stack) ==
    IF Len(stack.Dependencies) > 0 THEN Some(stack.Dependencies) ELSE Absent

\* GenerateStackProject(stack): the project returned; the error is always nil.
GenerateStackProject(stack) ==
    [Dir |-> findCommonParent(stack.Modules),
     Name |-> stack.Name,
     Workflow |-> stack.AtlantisConfig.Workflow,
     Workspace |-> stack.AtlantisConfig.Workspace,
     TerraformVersion |-> stack.AtlantisConfig.TerraformVersion,
     Autoplan |-> [Enabled |-> stack.AtlantisConfig.AutoPlan,
                   WhenModified |-> uniqueStrings(BaseDependencies
                                       \o StackLevelDependencies(stack.Dependencies))],
     ApplyRequirements |-> ProjectApplyRequirements(stack),
     ExecutionOrderGroup |-> ProjectExecutionOrderGroup(stack),
     DependsOn |-> ProjectDependsOn(stack)]

\* Inputs: module paths relative to the repository root, two stack definition
\* files that pass ValidateStackDefinition, and stacks handed to
\* GenerateStackProject.
ModuleAW == <<"a", "/", "w">>
ManagerModuleLists == { <<>>, <<ModuleAV>>, <<ModuleAV, ModuleAW, ModuleSV>> }
ExternalStack(name, include, exclude, modules) ==
    [Name |-> name, Include |-> include, Exclude |-> exclude, Modules |-> modules]
DefinitionFiles ==
    { <<ExternalStack("test-stack", <<>>, <<>>, <<ModuleAV>>)>>,
      <<ExternalStack("test-stack", <<IncludeA>>, <<>>, <<>>),
        ExternalStack("other", <<>>, <<>>, <<ModuleAV, ModuleSV>>)>> }
ManagerConfigs == [DefinitionFile : {"", "stacks.yaml"}, InferFromDir : BOOLEAN]
StackAtlantisConfigs ==
    [Workflow : {"terragrunt"}, AutoPlan : BOOLEAN,
     ApplyRequirements : {<<>>, <<"approved">>},
     Workspace : {"default"}, TerraformVersion : {"", "1.5.0"}]
GeneratedStacks ==
    [Name : {"test-stack"},
     Modules : {<<>>, <<ModuleAV, ModuleAW>>, <<ModuleAV, ModuleSV>>},
     Dependencies : {<<>>, <<"dependency-stack">>, <<"other", "dependency-stack">>,
                     <<"other", "other">>},
     AtlantisConfig : StackAtlantisConfigs,
     ExecutionOrder : {-1, 0, 10}]

Called(name, arg) == [op |-> name, arg |-> arg]

\* NewStackManager(config)
InitManager ==
    /\ op = "StackManager"
    /\ phase = "run"
    /\ smConfig \in ManagerConfigs
    /\ defFile \in DefinitionFiles
    /\ smStacks = <<>>
    /\ moduleToStacks = <<>>
    /\ stackToModules = <<>>
    /\ discovered = FALSE
    /\ assignCalls = 0
    /\ mgrCall = Called("NewStackManager", smConfig)
    /\ mgrRet = [err |-> Nil]
    /\ IdleGlob /\ IdleMatch /\ IdleValidate /\ IdleResolve
    /\ IdleCache /\ IdleGraph /\ IdleHcl

managerOthers ==
    <<op, phase, smConfig, defFile, globVars, matchVars, validateVars, resolveVars,
      cacheVars, graphVars, hclVars>>

CallDiscoverStacks ==
    /\ op = "StackManager"
    /\ smStacks' = DiscoverStacks
    /\ discovered' = TRUE
    /\ mgrCall' = Called("DiscoverStacks", <<>>)
    /\ mgrRet' = [stacks |-> DiscoverStacks, err |-> Nil]
    /\ UNCHANGED <<moduleToStacks, stackToModules, assignCalls, managerOthers>>

CallAssignModulesToStacks ==
    /\ op = "StackManager"
    /\ \E modules \in ManagerModuleLists :
         LET result == AssignModulesToStacks(modules) IN
         /\ moduleToStacks' = result.moduleToStacks
         /\ stackToModules' = result.assignments
         /\ mgrCall' = Called("AssignModulesToStacks", modules)
         /\ mgrRet' = [assignments |-> result.assignments, err |-> Nil]
    /\ assignCalls' = IF assignCalls = 0 THEN 1 ELSE 2
    /\ UNCHANGED <<smStacks, discovered, managerOthers>>

CallGenerateStackProject ==
    /\ op = "StackManager"
    /\ \E stack \in GeneratedStacks :
         /\ mgrCall' = Called("GenerateStackProject", stack)
         /\ mgrRet' = [project |-> GenerateStackProject(stack), err |-> Nil]
    /\ UNCHANGED <<smStacks, moduleToStacks, stackToModules, discovered, assignCalls,
                   managerOthers>>

CallGetStackForModule ==
    /\ op = "StackManager"
    /\ \E module \in {ModuleAV, ModuleAW, ModuleSV} :
         /\ mgrCall' = Called("GetStackForModule", module)
         /\ mgrRet' = [stackNames |-> GetStackForModule(module), err |-> Nil]
    /\ UNCHANGED <<smStacks, moduleToStacks, stackToModules, discovered, assignCalls,
                   managerOthers>>

CallValidateStackCoverage ==
    /\ op = "StackManager"
    /\ \E allModules \in ManagerModuleLists :
         /\ mgrCall' = Called("ValidateStackCoverage", allModules)
         /\ mgrRet' = [err |-> ValidateStackCoverage(allModules)]
    /\ UNCHANGED <<smStacks, moduleToStacks, stackToModules, discovered, assignCalls,
                   managerOthers>>

NextManager ==
    \/ CallDiscoverStacks
    \/ CallAssignModulesToStacks
    \/ CallGenerateStackProject
    \/ CallGetStackForModule
    \/ CallValidateStackCoverage

SpecManager == InitManager /\ [][NextManager]_vars

Returned(name) == op = "StackManager" /\ mgrCall.op = name

ValidDefinitionFile ==
    ValidateStackDefinition([Version |-> SupportedVersion, Stacks |-> defFile]) = Nil

\* C15: with a DefinitionFile configured that holds a valid definition,
\* DiscoverStacks returns one stack per record of the file, in file order and
\* under the record's name, and the manager's stacks are that list.
C15_DiscoverReturnsFileStacks ==
    (Returned("DiscoverStacks") /\ smConfig.DefinitionFile # "" /\ ValidDefinitionFile) =>
        /\ mgrRet.err = Nil
        /\ Len(mgrRet.stacks) = Len(defFile)
        /\ \A i \in 1..Len(defFile) : mgrRet.stacks[i].Name = defFile[i].Name
        /\ smStacks = mgrRet.stacks

\* The modules a stack record selects: those its explicit list names when it
\* has one, otherwise those an include pattern matches and no exclude pattern
\* does.
Selects(record, module) ==
    IF Len(record.Modules) > 0
    THEN module \in Range(record.Modules)
    ELSE /\ PatternLoop(module, record.Include).hit
         /\ ~PatternLoop(module, record.Exclude).hit
SelectedModules(record, modules) ==
    SelectSeq(modules, LAMBDA module : Selects(record, module))

\* C16: after DiscoverStacks on a valid definition file, the mapping returned
\* by AssignModulesToStacks holds, for every stack of the file, the given
\* modules the stack selects, in the given order; a module selected by several
\* stacks is under each of them.
C16_AssignmentsFollowSelection ==
    (/\ Returned("AssignModulesToStacks") /\ discovered
     /\ smConfig.DefinitionFile # "" /\ ValidDefinitionFile) =>
        \A i \in 1..Len(defFile) :
            Lookup(mgrRet.assignments, defFile[i].Name)
                = SelectedModules(defFile[i], mgrCall.arg)

Unassigned(allModules) == {m \in Range(allModules) : GetStackForModule(m) = <<>>}

\* C17: ValidateStackCoverage returns nil exactly when every module given to
\* it is assigned to at least one stack, and otherwise an error that lists
\* every unassigned module.
C17_CoverageReportsUnassigned ==
    Returned("ValidateStackCoverage") =>
        \/ mgrRet.err = Nil /\ Unassigned(mgrCall.arg) = {}
        \/ /\ mgrRet.err # Nil /\ Unassigned(mgrCall.arg) # {}
           /\ Unassigned(mgrCall.arg) \subseteq Range(mgrRet.err.modules)

\* C18: GenerateStackProject returns, with a nil error, a project that carries
\* the stack's name, workflow, workspace, terraform version and autoplan flag,
\* the stack's execution order as its group when that is positive, and as
\* DependsOn the dependency names the stack declares, each and in declared
\* order.
C18_ProjectCopiesStack ==
    Returned("GenerateStackProject") =>
        LET stack == mgrCall.arg
            project == mgrRet.project
        IN /\ mgrRet.err = Nil
           /\ project.Name = stack.Name
           /\ project.Workflow = stack.AtlantisConfig.Workflow
           /\ project.Workspace = stack.AtlantisConfig.Workspace
           /\ project.TerraformVersion = stack.AtlantisConfig.TerraformVersion
           /\ project.Autoplan.Enabled = stack.AtlantisConfig.AutoPlan
           /\ stack.ExecutionOrder > 0 =>
                  project.ExecutionOrderGroup = Some(stack.ExecutionOrder)
           /\ stack.Dependencies # <<>> => project.DependsOn = Some(stack.Dependencies)

\* A project generated for a stack with a positive execution order and two
\* declared dependencies.
C18_Witness ==
    /\ Returned("GenerateStackProject")
    /\ mgrCall.arg.ExecutionOrder = 10
    /\ mgrRet.project.ExecutionOrderGroup = <<10>>
    /\ mgrRet.project.DependsOn = << <<"other", "dependency-stack">> >>
    /\ mgrRet.project.Workflow = "terragrunt"

\* C19 as stated: ApplyRequirements is nil iff the stack has no apply
\* requirements, ExecutionOrderGroup is nil iff the execution order is 0, and
\* DependsOn is nil iff the stack declares no dependencies.
C19_OmittedIffUnsetZero ==
    Returned("GenerateStackProject") =>
        LET stack == mgrCall.arg
            project == mgrRet.project
        IN /\ project.ApplyRequirements = Absent
                <=> stack.AtlantisConfig.ApplyRequirements = <<>>
           /\ project.ExecutionOrderGroup = Absent <=> stack.ExecutionOrder = 0
           /\ project.DependsOn = Absent <=> stack.Dependencies = <<>>

\* C19 amended: ExecutionOrderGroup is nil iff the execution order is not
\* positive; the two other fields are nil iff the stack has no apply
\* requirements, no dependencies.
C19_OmittedIffNotPositive ==
    Returned("GenerateStackProject") =>
        LET stack == mgrCall.arg
            project == mgrRet.project
        IN /\ project.ApplyRequirements = Absent
                <=> stack.AtlantisConfig.ApplyRequirements = <<>>
           /\ project.ExecutionOrderGroup = Absent <=> stack.ExecutionOrder <= 0
           /\ project.DependsOn = Absent <=> stack.Dependencies = <<>>

\* A project generated for a stack with nothing optional set: all three fields
\* are nil.
C19_Witness ==
    /\ Returned("GenerateStackProject")
    /\ mgrCall.arg.ExecutionOrder = 0
    /\ mgrCall.arg.Dependencies = <<>>
    /\ mgrCall.arg.AtlantisConfig.ApplyRequirements = <<>>
    /\ mgrRet.project.ApplyRequirements = Absent
    /\ mgrRet.project.ExecutionOrderGroup = Absent
    /\ mgrRet.project.DependsOn = Absent

RECURSIVE CommonPrefix(_)
\* The longest common prefix of a non-empty list of path-segment lists.
CommonPrefix(paths) ==
    IF Len(paths) = 1 THEN paths[1]
    ELSE LET rest == CommonPrefix(Tail(paths))
         IN SubSeq(rest, 1, CommonLen(paths[1], rest))
\* The common ancestor directory of the member module paths.
CommonAncestor(modules) ==
    LET prefix == CommonPrefix([i \in 1..Len(modules) |-> Split(modules[i], <<"/">>)])
    IN IF prefix = <<>> THEN <<".">> ELSE Join(prefix, <<"/">>)

\* C20: for a stack with member modules, the Dir of the generated project is
\* their common ancestor: the longest common prefix of their path-segment
\* lists.
C20_DirIsCommonAncestor ==
    (Returned("GenerateStackProject") /\ mgrCall.arg.Modules # <<>>) =>
        mgrRet.project.Dir = CommonAncestor(mgrCall.arg.Modules)

\* The repository the manager works on: the module a/v calls the local
\* terraform module m, so the local source resolver returns the glob m/*.tf*
\* for it; the other modules have no local module call.
LocalModuleGlob == <<"m", "/", "*", ".", "t", "f", "*">>
LocalSourcesOf(module) == IF module = ModuleAV THEN {LocalModuleGlob} ELSE {}

NoDuplicates(list) == \A i, j \in 1..Len(list) : list[i] = list[j] => i = j

\* C21: the WhenModified list of the generated project has no duplicates and
\* holds exactly the base patterns, the member modules of every stack the stack
\* depends on, and what the local source resolver returns for every member
\* module of the stack.
C21_WhenModifiedIsUnion ==
    Returned("GenerateStackProject") =>
        LET stack == mgrCall.arg
            whenModified == mgrRet.project.Autoplan.WhenModified
        IN /\ NoDuplicates(whenModified)
           /\ Range(whenModified) =
                Range(BaseDependencies)
                \cup UNION {Range(Lookup(stackToModules, stack.Dependencies[i])) :
                              i \in 1..Len(stack.Dependencies)}
                \cup UNION {LocalSourcesOf(stack.Modules[i]) : i \in 1..Len(stack.Modules)}

\* ---------------------------------------------------------------------------
\* terragrunt.stack.hcl marker files: ParseStackHclFile, parseHclForStack and
\* ConvertStackHclToStacks.  A *string or *StackBlock is Absent or Some(value).
\* ---------------------------------------------------------------------------

TerragruntHcl == <<"t", "e", "r", "r", "a", "g", "r", "u", "n", "t", ".", "h", "c", "l">>
HclGitRoot == <<"/", "r">>
MarkerInP == <<"/", "r", "/", "p", "/", "t", "e", "r", "r", "a", "g", "r", "u", "n", "t", ".", "s", "t", "a", "c", "k", ".", "h", "c", "l">>
MarkerInRoot == <<"/", "r", "/", "t", "e", "r", "r", "a", "g", "r", "u", "n", "t", ".", "s", "t", "a", "c", "k", ".", "h", "c", "l">>
\* The file system: the regular files and the directories that exist.
RegularFiles == { MarkerInP, MarkerInRoot, <<"/", "r", "/", "p", "/", "v", "p", "c", "/", "t", "e", "r", "r", "a", "g", "r", "u", "n", "t", ".", "h", "c", "l">> }
Directories == { <<"/", "r">>, <<"/", "r", "/", "p">>, <<"/", "r", "/", "p", "/", "v", "p", "c">>, <<"/", "r", "/", "p", "/", "d", "b">> }

RECURSIVE CleanElements(_, _)
\* The lexical processing of filepath.Clean on the elements of a rooted path:
\* "." is dropped and ".." removes the element before it.
CleanElements(elems, acc) ==
    IF elems = <<>> THEN acc
    ELSE IF Head(elems) = <<".">> \/ Head(elems) = <<>> THEN CleanElements(Tail(elems), acc)
    ELSE IF Head(elems) = <<".", ".">>
         THEN CleanElements(Tail(elems),
                            IF acc = <<>> THEN acc ELSE SubSeq(acc, 1, Len(acc) - 1))
    ELSE CleanElements(Tail(elems), Append(acc, Head(elems)))

\* filepath.Join(dir, elem) for a rooted dir.
FilepathJoin(dir, elem) ==
    <<Separator>> \o Join(CleanElements(Elements(dir) \o Elements(elem), <<>>), <<Separator>>)

\* filepath.Dir and filepath.Base of a cleaned rooted path.
FilepathDir(p) ==
    LET elems == Elements(p)
    IN <<Separator>> \o Join(SubSeq(elems, 1, Len(elems) - 1), <<Separator>>)
FilepathBase(p) ==
    LET elems == Elements(p)
    IN IF elems = <<>> THEN <<Separator>> ELSE elems[Len(elems)]

\* os.Stat of a rooted path: nil, ENOENT, or ENOTDIR when an element before the
\* last one is a regular file.
Stat(p) ==
    LET elems == Elements(p)
        Ancestor(k) == <<Separator>> \o Join(SubSeq(elems, 1, k), <<Separator>>)
    IN IF p \in RegularFiles \cup Directories THEN Nil
       ELSE IF \E k \in 1..(Len(elems) - 1) : Ancestor(k) \in RegularFiles THEN "ENOTDIR"
       ELSE "ENOENT"

\* os.IsNotExist(err) for the error of os.Stat: true for ENOENT only.
StatIsNotExist(p) == Stat(p) = "ENOENT"

UnitBlock(name, source, unitPath) == [Name |-> name, Source |-> source, Path |-> unitPath]
StackBlock(name, description) == [Name |-> name, Description |-> description]

\* parseHclForStack: the parsed file and the error.  A panic of the parser is
\* recovered and logged by the deferred function, which assigns no result:
\* the function then returns the zero values, a nil file and a nil error.
parseHclForStack(file) ==
    CASE file.Parse = "ok" -> [file |-> Some(file.FilePath), err |-> Nil]
      [] file.Parse = "diagnostics" -> [file |-> Absent, err |-> "parse diagnostics"]
      [] file.Parse = "panic" -> [file |-> Absent, err |-> Nil]

HclReturn(definition, err, crashed) == [def |-> definition, err |-> err, crashed |-> crashed]

FirstStackBlock_LastWins(stackBlocks) ==
    IF Len(stackBlocks) > 0 THEN Some(stackBlocks[Len(stackBlocks)]) ELSE Absent
\* The stack block of the definition: the first one of the file, if any.
FirstStackBlock(stackBlocks) ==
    IF Len(stackBlocks) > 0 THEN Some(stackBlocks[1]) ELSE Absent

\* ParseStackHclFile(path, ctx): [def, err], or crashed when it dereferences
\* the nil file.
ParseStackHclFile(file) ==
    IF ~file.Exists THEN HclReturn(Absent, "stack HCL file not found", FALSE)
    ELSE IF ~file.Readable THEN HclReturn(Absent, "failed to read stack HCL file", FALSE)
    ELSE IF parseHclForStack(file).err # Nil
         THEN HclReturn(Absent, "failed to parse stack HCL file", FALSE)
    ELSE IF file.EvalContextErr THEN HclReturn(Absent, "failed to create eval context", FALSE)
    ELSE IF parseHclForStack(file).file = Absent THEN HclReturn(Absent, Nil, TRUE)
    ELSE IF file.DecodeErr THEN HclReturn(Absent, "failed to decode stack HCL file", FALSE)
    ELSE HclReturn(Some([FilePath |-> file.FilePath,
                         Units |-> file.Units,
                         StackBlock |-> FirstStackBlock(file.Stacks)]),
                   Nil, FALSE)

HclSource == "terragrunt.stack.hcl"
ZeroAtlantisConfig ==
    [Workflow |-> "", AutoPlan |-> FALSE, Parallel |-> FALSE,
     ApplyRequirements |-> <<>>, Workspace |-> "", TerraformVersion |-> ""]

HclStackName_AlwaysDirectory(definition) ==
    IF Len(definition.Units) > 0 THEN FilepathBase(FilepathDir(definition.FilePath))
    ELSE IF definition.StackBlock # Absent THEN definition.StackBlock[1].Name
    ELSE definition.FilePath
\* The name given to the stack of a definition.
HclStackName(definition) ==
    IF definition.StackBlock # Absent THEN definition.StackBlock[1].Name
    ELSE IF Len(definition.Units) > 0 THEN FilepathBase(FilepathDir(definition.FilePath))
    ELSE definition.FilePath

HclDescription(definition) ==
    IF definition.StackBlock # Absent /\ definition.StackBlock[1].Description # Absent
    THEN definition.StackBlock[1].Description[1]
    ELSE ""

\* The body of the loop over the units: the entry appended to unitPaths, as a
\* list of one, or nothing for a unit that is skipped.
UnitPath(stackDir, unit, root) ==
    IF unit.Path # Absent
    THEN LET joined == FilepathJoin(stackDir, unit.Path[1])
             terragruntFile == FilepathJoin(joined, TerragruntHcl)
             unitPath == IF StatIsNotExist(terragruntFile) /\ FilepathBase(joined) = TerragruntHcl
                         THEN FilepathDir(joined) ELSE joined
         IN <<RelPath(root, unitPath)>>
    ELSE IF unit.Source # Absent
    THEN <<RelPath(root, unit.Source[1])>>
    ELSE <<>>

RECURSIVE UnitPaths(_, _, _)
UnitPaths(stackDir, units, root) ==
    IF units = <<>> THEN <<>>
    ELSE UnitPath(stackDir, Head(units), root) \o UnitPaths(stackDir, Tail(units), root)

\* ConvertStackHclToStacks(definitions, gitRoot)
ConvertStackHclToStacks(definitions, root) ==
    [i \in 1..Len(definitions) |->
        [Name |-> HclStackName(definitions[i]),
         Description |-> HclDescription(definitions[i]),
         Modules |-> UnitPaths(FilepathDir(definitions[i].FilePath), definitions[i].Units, root),
         Dependencies |-> <<>>,
         Source |-> HclSource,
         AtlantisConfig |-> ZeroAtlantisConfig,
         ExecutionOrder |-> 0]]

\* Inputs: units with a path to a module directory, to an existing and to a
\* missing terragrunt.hcl file, to a directory without one, with a source only
\* and with neither; files with no, one and two stack blocks; and the ways a
\* file can fail to load.
UnitVpc == UnitBlock("vpc", Absent, Some(<<"v", "p", "c">>))
UnitDotVpc == UnitBlock("dotvpc", Absent, Some(<<".", "/", "v", "p", "c">>))
UnitFile == UnitBlock("file", Absent, Some(<<"v", "p", "c", "/", "t", "e", "r", "r", "a", "g", "r", "u", "n", "t", ".", "h", "c", "l">>))
UnitNewFile == UnitBlock("newfile", Absent, Some(<<"n", "e", "w", "/", "t", "e", "r", "r", "a", "g", "r", "u", "n", "t", ".", "h", "c", "l">>))
UnitDb == UnitBlock("db", Absent, Some(<<"d", "b">>))
UnitSource == UnitBlock("remote", Some(<<"g", "i", "t", ":", ":", "x">>), Absent)
UnitNeither == UnitBlock("empty", Absent, Absent)
UnitPool == {UnitVpc, UnitDotVpc, UnitFile, UnitNewFile, UnitDb, UnitSource, UnitNeither}
UnitLists == {<<>>} \cup {<<u>> : u \in UnitPool} \cup {<<u, v>> : u, v \in UnitPool}
Production == StackBlock(<<"p", "r", "o", "d", "u", "c", "t", "i", "o", "n">>, Some("Production stack"))
Staging == StackBlock(<<"s", "t", "a", "g", "i", "n", "g">>, Absent)
StackBlockLists == {<<>>, <<Production>>, <<Production, Staging>>, <<Staging, Production>>}
Loads(exists, readable, parse, evalContextErr, decodeErr) ==
    [Exists |-> exists, Readable |-> readable, Parse |-> parse,
     EvalContextErr |-> evalContextErr, DecodeErr |-> decodeErr]
LoadOutcomes ==
    { Loads(TRUE, TRUE, "ok", FALSE, FALSE), Loads(FALSE, FALSE, "ok", FALSE, FALSE),
      Loads(TRUE, FALSE, "ok", FALSE, FALSE), Loads(TRUE, TRUE, "diagnostics", FALSE, FALSE),
      Loads(TRUE, TRUE, "panic", FALSE, FALSE), Loads(TRUE, TRUE, "panic", TRUE, FALSE),
      Loads(TRUE, TRUE, "ok", TRUE, FALSE), Loads(TRUE, TRUE, "ok", FALSE, TRUE) }
MarkerFile(filePath, loads, units, stackBlocks) ==
    [FilePath |-> filePath, Exists |-> loads.Exists, Readable |-> loads.Readable,
     Parse |-> loads.Parse, EvalContextErr |-> loads.EvalContextErr,
     DecodeErr |-> loads.DecodeErr, Units |-> units, Stacks |-> stackBlocks]
FirstFiles ==
    {MarkerFile(MarkerInP, loads, units, stackBlocks) :
        loads \in LoadOutcomes, units \in UnitLists, stackBlocks \in StackBlockLists}
SecondFiles ==
    {MarkerFile(MarkerInRoot, Loads(TRUE, TRUE, "ok", FALSE, FALSE), units, <<>>) :
        units \in {<<>>, <<UnitVpc>>}}

InitHcl ==
    /\ op = "StackHcl"
    /\ phase = "parse"
    /\ \E first \in FirstFiles :
         \/ hclFiles = <<first>>
         \/ \E second \in SecondFiles : hclFiles = <<first, second>>
    /\ hclDefs = <<>>
    /\ hclRet = <<>>
    /\ hclStacks = <<>>
    /\ IdleGlob /\ IdleMatch /\ IdleValidate /\ IdleResolve
    /\ IdleCache /\ IdleGraph /\ IdleManager

hclOthers ==
    <<op, hclFiles, globVars, matchVars, validateVars, resolveVars, cacheVars,
      graphVars, managerVars>>

\* The next marker file is parsed; a definition returned without error is
\* kept for the conversion, and a crash ends the run.
CallParseStackHclFile ==
    /\ op = "StackHcl" /\ phase = "parse"
    /\ Len(hclRet) < Len(hclFiles)
    /\ LET result == ParseStackHclFile(hclFiles[Len(hclRet) + 1]) IN
         /\ hclRet' = Append(hclRet, result)
         /\ hclDefs' = IF result.def # Absent THEN Append(hclDefs, result.def[1]) ELSE hclDefs
         /\ phase' = IF result.crashed THEN "crashed" ELSE "parse"
    /\ UNCHANGED <<hclStacks, hclOthers>>

CallConvertStackHclToStacks ==
    /\ op = "StackHcl" /\ phase = "parse"
    /\ Len(hclRet) = Len(hclFiles)
    /\ hclStacks' = ConvertStackHclToStacks(hclDefs, HclGitRoot)
    /\ phase' = "done"
    /\ UNCHANGED <<hclDefs, hclRet, hclOthers>>

NextHcl == CallParseStackHclFile \/ CallConvertStackHclToStacks

SpecHcl == InitHcl /\ [][NextHcl]_vars

Parsed(i) == op = "StackHcl" /\ i <= Len(hclRet)
Decodes(file) ==
    /\ file.Exists /\ file.Readable /\ file.Parse = "ok"
    /\ ~file.EvalContextErr /\ ~file.DecodeErr

\* C22: ParseStackHclFile on a file that loads and decodes returns no error
\* and a definition holding all unit blocks in declaration order; its
\* StackBlock is the first stack block of the file, or nil when the file has
\* none.
C22_FirstStackBlockWins ==
    \A i \in 1..Len(hclFiles) :
        (Parsed(i) /\ Decodes(hclFiles[i])) =>
            /\ hclRet[i].err = Nil /\ ~hclRet[i].crashed /\ hclRet[i].def # Absent
            /\ hclRet[i].def[1].Units = hclFiles[i].Units
            /\ IF hclFiles[i].Stacks = <<>>
               THEN hclRet[i].def[1].StackBlock = Absent
               ELSE hclRet[i].def[1].StackBlock = Some(Head(hclFiles[i].Stacks))

\* A file with two stack blocks and two units was parsed: the definition
\* holds the first block and both units.
C22_Witness ==
    /\ Parsed(1) /\ Decodes(hclFiles[1])
    /\ hclFiles[1].Stacks = <<Staging, Production>>
    /\ hclFiles[1].Units = <<UnitVpc, UnitDb>>
    /\ hclRet[1].def = Some([FilePath |-> MarkerInP, Units |-> <<UnitVpc, UnitDb>>,
                             StackBlock |-> Some(Staging)])

Converted == op = "StackHcl" /\ phase = "done"

\* C23: the stack of a definition is named by its stack block when it has
\* one, and otherwise, when it declares a unit, by the base name of the
\* directory that holds the marker file; its description is that of the stack
\* block, or empty.
C23_StackNameAndDescription ==
    Converted =>
        \A i \in 1..Len(hclDefs) :
            LET definition == hclDefs[i]
                stack == hclStacks[i]
            IN /\ definition.StackBlock # Absent =>
                      stack.Name = definition.StackBlock[1].Name
               /\ (definition.StackBlock = Absent /\ definition.Units # <<>>) =>
                      stack.Name = FilepathBase(FilepathDir(definition.FilePath))
               /\ stack.Description =
                      IF definition.StackBlock # Absent
                         /\ definition.StackBlock[1].Description # Absent
                      THEN definition.StackBlock[1].Description[1] ELSE ""

\* Two definitions were converted: one named by its stack block and carrying
\* its description, one without stack block named after its directory.
C23_Witness ==
    /\ Converted /\ Len(hclDefs) = 2
    /\ hclDefs[1].StackBlock = Some(Production)
    /\ hclStacks[1].Name = Production.Name
    /\ hclStacks[1].Description = "Production stack"
    /\ hclDefs[2].StackBlock = Absent /\ hclDefs[2].Units # <<>>
    /\ hclStacks[2].Name = <<"r">>
    /\ hclStacks[2].Description = ""

AnyEntry == <<>>
\* What a unit contributes to the module list: nothing when it declares
\* neither path nor source, some entry when it declares a source only, and for
\* a path the location <marker file directory>/<path> relative to the git root
\* with forward slashes, or its parent directory when that location is a
\* terragrunt.hcl file.
ExpectedEntry(stackDir, unit) ==
    IF unit.Path # Absent
    THEN LET location == FilepathJoin(stackDir, unit.Path[1])
         IN IF FilepathBase(location) # TerragruntHcl
            THEN <<RelPath(HclGitRoot, location)>>
            ELSE IF location \in RegularFiles
            THEN <<RelPath(HclGitRoot, FilepathDir(location))>>
            ELSE <<AnyEntry>>
    ELSE IF unit.Source # Absent THEN <<AnyEntry>>
    ELSE <<>>
RECURSIVE ExpectedEntries(_, _)
ExpectedEntries(stackDir, units) ==
    IF units = <<>> THEN <<>>
    ELSE ExpectedEntry(stackDir, Head(units)) \o ExpectedEntries(stackDir, Tail(units))

\* C24: the conversion returns one stack per definition, in the order given
\* and with source 'terragrunt.stack.hcl'; the module list has one entry per
\* unit that declares a path or a source, in declaration order, and the entry
\* of a unit with a path is the location the path names, relative to the git
\* root, or the parent directory of a terragrunt.hcl file the path names.
C24_ModulesFollowUnits ==
    Converted =>
        /\ Len(hclStacks) = Len(hclDefs)
        /\ \A i \in 1..Len(hclDefs) :
             LET expected == ExpectedEntries(FilepathDir(hclDefs[i].FilePath), hclDefs[i].Units)
             IN /\ hclStacks[i].Source = HclSource
                /\ hclStacks[i].Name = HclStackName(hclDefs[i])
                /\ Len(hclStacks[i].Modules) = Len(expected)
                /\ \A k \in 1..Len(expected) :
                     expected[k] = AnyEntry \/ hclStacks[i].Modules[k] = expected[k]

\* C27: when the parser panics on a marker file, ParseStackHclFile returns a
\* nil definition and an error: it does not crash and does not go on with the
\* nil parsed file.
C27_ParserPanicBecomesError ==
    \A i \in 1..Len(hclFiles) :
        (Parsed(i) /\ hclFiles[i].Exists /\ hclFiles[i].Readable
                   /\ hclFiles[i].Parse = "panic") =>
            /\ ~hclRet[i].crashed
            /\ hclRet[i].def = Absent
            /\ hclRet[i].err # Nil

\* The stack still says how its modules are selected.
SelectsModules(stack) ==
    \/ stack.Modules # <<>>
    \/ "Include" \in DOMAIN stack /\ stack.Include # <<>>

\* C28: every stack converted from a definition file that passed the
\* validation, and every stack converted from a marker file, has a non-empty
\* module list or carries include patterns.
C28_ConvertedStacksSelectModules ==
    /\ (op = "ValidateStackDefinition" /\ phase = "converted") =>
           \A i \in 1..Len(converted) : SelectsModules(converted[i])
    /\ Converted => \A i \in 1..Len(hclStacks) : SelectsModules(hclStacks[i])

\* The checks of one stack of the definition, in the order name, duplicate
\* name, neither include nor modules, empty include pattern.
FirstStackError(i) ==
    LET stack == def.Stacks[i] IN
    IF stack.Name = "" THEN ErrNoName
    ELSE IF \E j \in 1..(i - 1) : def.Stacks[j].Name = stack.Name THEN ErrDuplicate
    ELSE IF stack.Include = <<>> /\ stack.Modules = <<>> THEN ErrNeither
    ELSE IF <<>> \in Range(stack.Include) THEN ErrEmptyPattern
    ELSE Nil
FailingStacks == {i \in 1..Len(def.Stacks) : FirstStackError(i) # Nil}
WellFormedDefinition ==
    /\ def.Version = 1
    /\ def.Stacks # <<>>
    /\ \A i \in 1..Len(def.Stacks) :
         /\ def.Stacks[i].Name # ""
         /\ \A j \in 1..Len(def.Stacks) : def.Stacks[j].Name = def.Stacks[i].Name => i = j
         /\ def.Stacks[i].Include # <<>> \/ def.Stacks[i].Modules # <<>>
         /\ <<>> \notin Range(def.Stacks[i].Include)

\* C25: the validation returns nil exactly for a definition of version 1 with
\* at least one stack whose stacks have non-empty pairwise distinct names, an
\* include list or a modules list, and no empty include pattern; otherwise it
\* returns the error of the first failing check: version, empty stack list,
\* then the checks of the first failing stack in their order.
C25_ValidationNilIffWellFormed ==
    ValidateDone =>
        /\ verr = Nil <=> WellFormedDefinition
        /\ verr = IF def.Version # 1 THEN ErrVersion
                  ELSE IF def.Stacks = <<>> THEN ErrNoStacks
                  ELSE IF FailingStacks = {} THEN Nil
                  ELSE FirstStackError(Min(FailingStacks))

\* A definition of version 1 whose first stack passes and whose second stack
\* has an empty include pattern.
C25_Witness ==
    /\ ValidateDone /\ def.Version = 1 /\ Len(def.Stacks) = 2
    /\ FirstStackError(1) = Nil
    /\ def.Stacks[2].Name # "" /\ def.Stacks[2].Include = <<IncludeA, <<>>>>
    /\ verr = ErrEmptyPattern

\* The directories the local sources of a module's calls name.
LocalCallees(d) == {mc.to : mc \in {c \in moduleCalls[d] : c.prefix \in localModuleSourcePrefixes}}
RECURSIVE ReachedFrom(_, _)
ReachedFrom(S, n) ==
    IF n = 0 THEN S
    ELSE ReachedFrom(S \cup UNION {LocalCallees(d) : d \in S}, n - 1)
\* The module directories reached from d through one or more local calls.
Reached(d) == ReachedFrom(LocalCallees(d), NumDirs)
Visited == {RootDir} \cup Reached(RootDir)
AcyclicTree == \A d \in Visited : d \notin Reached(d)
NoDialectFallback ==
    \A d \in Visited : \A summary \in moduleDiags[d] : ~IsProviderSummary(summary)

ManagerModules == {ModuleAV, ModuleAW, ModuleSV}
ManagerStackNames ==
    DOMAIN stackToModules \cup {defFile[i].Name : i \in 1..Len(defFile)}
        \cup UNION {Range(GetStackForModule(m)) : m \in ManagerModules}

C30_GenerateReadsLastAssignment ==
    [][(op = "StackManager" /\ mgrCall'.op = "GenerateStackProject") =>
          /\ UNCHANGED <<smConfig, smStacks, moduleToStacks, stackToModules>>
          /\ mgrRet'.err = Nil
          /\ mgrCall'.arg.Dependencies # <<>> =>
                 mgrRet'.project.DependsOn = Some(mgrCall'.arg.Dependencies)
          /\ Range(mgrRet'.project.Autoplan.WhenModified) =
                 Range(BaseDependencies)
                 \cup UNION {Range(stackToModules[d]) :
                               d \in Range(mgrCall'.arg.Dependencies) \cap DOMAIN stackToModules}
      ]_vars

\* A project generated before any AssignModulesToStacks call for a stack with
\* two declared dependencies: only the base patterns are watched and both
\* dependencies are listed.
C30_Witness ==
    /\ Returned("GenerateStackProject") /\ assignCalls = 0
    /\ mgrCall.arg.Dependencies = <<"other", "dependency-stack">>
    /\ mgrRet.err = Nil
    /\ mgrRet.project.Autoplan.WhenModified = BaseDependencies
    /\ mgrRet.project.DependsOn = Some(<<"other", "dependency-stack">>)

====
